---- MODULE Spec2Model ----
(***************************************************************************)
(* A model of the catalog ingestion and retrieval core of the telegram     *)
(* movie bot: src/bot.py (module-level handlers add_movie, search_movie)   *)
(* and src/movies_bot.py (class MovieBot).                                 *)
(*                                                                         *)
(* Text is modelled as sequences of one-character strings, so that the     *)
(* regular expressions of the code are computed character by character.    *)
(***************************************************************************)
EXTENDS Integers, Sequences, FiniteSets, TLC

(***************************************************************************)
(* Bounds of the exploration (not program constants).                      *)
(***************************************************************************)
\* asset messages the exploration delivers to the storage group
MaxEvents == 4

\* the clock's last reading
MaxTime == 3

\* entries of a store drawn for the searches
MaxStored == 11

\* text messages of one user that the exploration lets reach a store
MaxAsked == 6

\* entries of a store drawn for MovieBot's searches
MaxMovieBotStored == 6

\* jobs given to schedule that are told apart: MaxJobs stands for as many
\* or more
MaxJobs == 3

(***************************************************************************)
(* Characters and case folding (re.IGNORECASE, Mongo's "i" option).        *)
(***************************************************************************)
UpperCase == << "A", "B", "C", "D", "E", "F", "G", "H", "I", "J", "K", "L", "M",
                "N", "O", "P", "Q", "R", "S", "T", "U", "V", "W", "X", "Y", "Z" >>

LowerCase == << "a", "b", "c", "d", "e", "f", "g", "h", "i", "j", "k", "l", "m",
                "n", "o", "p", "q", "r", "s", "t", "u", "v", "w", "x", "y", "z" >>

lower(c) ==
    IF \E i \in 1..26 : UpperCase[i] = c
    THEN LowerCase[CHOOSE i \in 1..26 : UpperCase[i] = c]
    ELSE c

IsSpace(c) == c \in {" ", "\t"}

IsDigit(c) == c \in {"0", "1", "2", "3", "4", "5", "6", "7", "8", "9"}

\* s[a..b] as a sequence (empty when a > b)
Slice(s, a, b) == [k \in 1..(b - a + 1) |-> s[a + k - 1]]

\* str.strip(): drop leading and trailing whitespace
strip(s) ==
    LET keep == {k \in 1..Len(s) : ~IsSpace(s[k])}
    IN  IF keep = {} THEN << >>
        ELSE Slice(s, CHOOSE a \in keep : \A k \in keep : a <= k,
                      CHOOSE b \in keep : \A k \in keep : k <= b)

\* the literal lit (given in lower case) matches s at position p, ignoring case
MatchAt(s, p, lit) ==
    /\ p + Len(lit) - 1 <= Len(s)
    /\ \A k \in 1..Len(lit) : lower(s[p + k - 1]) = lit[k]

\* sanitize_unicode: encode to UTF-8 ignoring errors and decode again.  Only
\* lone surrogates are dropped; the element "U+D800" stands for one here.
sanitize_unicode(text) == SelectSeq(text, LAMBDA c : c # "U+D800")

(***************************************************************************)
(* add_movie's filename cleaning, first pattern (bot.py line 116):         *)
(*   (?i)(?:\[.*?\]\s*|\s*-?\s*(HDRip|10bit|...|6CH))                      *)
(***************************************************************************)
\* the literal alternatives of the tag group, in the order of the pattern;
\* the alternative \d{3,4}MB sits between AAC and AMZN and is SizeTagLen
TagsBeforeSize ==
    << <<"h","d","r","i","p">>, <<"1","0","b","i","t">>, <<"x","2","6","4">>,
       <<"a","a","c">> >>

TagsAfterSize ==
    << <<"a","m","z","n">>, <<"w","e","b","-","d","l">>,
       <<"w","e","b","r","i","p">>, <<"h","e","v","c">>, <<"x","2","6","5">>,
       <<"e","s","u","b">>, <<"h","q">>, <<".","m","k","v">>,
       <<".","m","p","4">>, <<".","a","v","i">>, <<".","m","o","v">>,
       <<"b","l","u","r","a","y">>, <<"d","v","d","r","i","p">>,
       <<"7","2","0","p">>, <<"1","0","8","0","p">>, <<"5","4","0","p">>,
       <<"s","d">>, <<"h","d">>, <<"c","a","m">>,
       <<"d","v","d","s","c","r">>, <<"r","5">>, <<"t","s">>,
       <<"r","i","p">>, <<"b","r","r","i","p">>, <<"a","c","3">>,
       <<"d","u","a","l","a","u","d","i","o">>, <<"6","c","h">> >>

\* length matched at p by the first alternative of tags that matches, else 0
FirstTagLen(s, p, tags) ==
    LET hits == {i \in 1..Len(tags) : MatchAt(s, p, tags[i])}
    IN  IF hits = {} THEN 0
        ELSE Len(tags[CHOOSE i \in hits : \A j \in hits : i <= j])

\* \d{3,4}MB at p: four digits are tried before three
SizeTagLen(s, p) ==
    LET digitsAt(n) == /\ p + n - 1 <= Len(s)
                       /\ \A k \in 0..(n - 1) : IsDigit(s[p + k])
    IN  IF digitsAt(4) /\ MatchAt(s, p + 4, <<"m","b">>) THEN 6
        ELSE IF digitsAt(3) /\ MatchAt(s, p + 3, <<"m","b">>) THEN 5
        ELSE 0

\* length of the tag group's match at p (0: no alternative matches)
TagLenAt(s, p) ==
    IF FirstTagLen(s, p, TagsBeforeSize) > 0 THEN FirstTagLen(s, p, TagsBeforeSize)
    ELSE IF SizeTagLen(s, p) > 0 THEN SizeTagLen(s, p)
    ELSE FirstTagLen(s, p, TagsAfterSize)

\* \s* from p: the first position at or after p that holds no whitespace
SkipSpace(s, p) ==
    LET stops == {q \in p..Len(s) : ~IsSpace(s[q])}
    IN  IF stops = {} THEN Len(s) + 1
        ELSE CHOOSE q \in stops : \A r \in stops : q <= r

\* \[.*?\]\s* at p: length of the match, 0 when there is none
BracketLenAt(s, p) ==
    LET closes == {q \in (p + 1)..Len(s) : s[q] = "]"}
    IN  IF p > Len(s) \/ s[p] # "[" \/ closes = {} THEN 0
        ELSE SkipSpace(s, (CHOOSE q \in closes : \A r \in closes : q <= r) + 1) - p

\* \s*-?\s*(tag) at p: length of the match, 0 when there is none
DashTagLenAt(s, p) ==
    LET q1 == SkipSpace(s, p)
        q2 == IF q1 <= Len(s) /\ s[q1] = "-" THEN q1 + 1 ELSE q1
        q3 == SkipSpace(s, q2)
        t  == TagLenAt(s, q3)
    IN  IF t > 0 THEN q3 + t - p ELSE 0

\* length of the whole pattern's match at p (the bracket alternative first)
TagMatchLenAt(s, p) ==
    IF BracketLenAt(s, p) > 0 THEN BracketLenAt(s, p) ELSE DashTagLenAt(s, p)

RECURSIVE SubFrom(_, _)
\* re.sub(pattern, '', s) from position p on: leftmost matches are removed
SubFrom(s, p) ==
    IF p > Len(s) THEN << >>
    ELSE IF TagMatchLenAt(s, p) > 0 THEN SubFrom(s, p + TagMatchLenAt(s, p))
    ELSE << s[p] >> \o SubFrom(s, p + 1)

\* re.sub(pattern, '', filename, flags=re.IGNORECASE).strip()
strip_tags(filename) == strip(SubFrom(filename, 1))

(***************************************************************************)
(* add_movie's second pattern (bot.py line 121), applied with re.search:   *)
(*   ^(.*?)(\(?\d{4}\)?)?(.*?Malayalam|Hindi|Tamil|Telugu|English)?$       *)
(* Group 1 is lazy: it ends at the first position from which the optional  *)
(* year group and the optional language group reach the end of the text.   *)
(***************************************************************************)
\* the lengths \(?\d{4}\)? can match at the start of r, in the order the
\* regex engine tries them (each optional part is greedy), then 0: group unset
YearLens(r) ==
    LET open   == IF Len(r) >= 1 /\ r[1] = "(" THEN 1 ELSE 0
        digits == /\ Len(r) >= open + 4
                  /\ \A k \in 1..4 : IsDigit(r[open + k])
        close  == digits /\ Len(r) >= open + 5 /\ r[open + 5] = ")"
    IN  IF ~digits THEN << 0 >>
        ELSE IF close THEN << open + 5, open + 4, 0 >>
        ELSE << open + 4, 0 >>

LanguageWords ==
    { <<"h","i","n","d","i">>, <<"t","a","m","i","l">>,
      <<"t","e","l","u","g","u">>, <<"e","n","g","l","i","s","h">> }

\* (.*?Malayalam|Hindi|Tamil|Telugu|English) followed by $ matches all of t
LanguageMatches(t) ==
    \/ /\ Len(t) >= 9
       /\ MatchAt(t, Len(t) - 8, <<"m","a","l","a","y","a","l","a","m">>)
    \/ \E w \in LanguageWords : Len(t) = Len(w) /\ MatchAt(t, 1, w)

\* the optional language group followed by $ matches at the start of t
TailMatches(t) == LanguageMatches(t) \/ Len(t) = 0

\* the indices into YearLens(r) whose year match lets the rest reach the end
YearChoices(r) ==
    {j \in 1..Len(YearLens(r)) :
        TailMatches(Slice(r, YearLens(r)[j] + 1, Len(r)))}

\* match.groups() for the text s: << group 1, group 2, group 3 >>, an unset
\* group being the empty text (both are skipped by "if part")
title_groups(s) ==
    LET starts == {i \in 0..Len(s) : YearChoices(Slice(s, i + 1, Len(s))) # {}}
        i == CHOOSE a \in starts : \A b \in starts : a <= b
        r == Slice(s, i + 1, Len(s))
        j == CHOOSE a \in YearChoices(r) : \A b \in YearChoices(r) : a <= b
        y == YearLens(r)[j]
    IN  << Slice(s, 1, i), Slice(r, 1, y), Slice(r, y + 1, Len(r)) >>

RECURSIVE join(_)
\* ' '.join(parts)
join(parts) ==
    IF Len(parts) = 0 THEN << >>
    ELSE IF Len(parts) = 1 THEN parts[1]
    ELSE parts[1] \o << " " >> \o join(Tail(parts))

\* ' '.join(part.strip() for part in match.groups() if part)
join_groups(groups) ==
    LET present == SelectSeq(groups, LAMBDA part : Len(part) > 0)
    IN  join([k \in 1..Len(present) |-> strip(present[k])])

\* cleaned_name of add_movie for a document's file_name
clean_filename(filename) == join_groups(title_groups(strip_tags(filename)))

(***************************************************************************)
(* Configuration (bot.py lines 42-43) and the inputs of the exploration.   *)
(***************************************************************************)
SEARCH_GROUP_ID == 1
STORAGE_GROUP_ID == 2

\* the chats messages come from: the two designated rooms
Chats == {SEARCH_GROUP_ID, STORAGE_GROUP_ID}

Users == {"u1", "u2"}

\* Python's None, a present value, and a dict key that is not there
None == << "None" >>
Some(v) == << "some", v >>
NoKey == << "absent" >>

\* update.message.document of the document events: file_id and file_name
Doc1 == [file_id |-> "f1", file_name |-> <<"A","b",".","m","k","v">>]

Doc2 == [file_id |-> "f2",
         file_name |-> <<"a","b"," ","2","0","2","1"," ","7","2","0","p">>]

Documents == {Doc1, Doc2}

\* a release file name with dots for spaces, a year and a group tag
DocRelease ==
    [file_id |-> "f4",
     file_name |-> <<"M","o","v","i","e",".","N","a","m","e",".","2","0","2","1",".","1","0","8","0","p",".","B","l","u","R","a","y",".","x","2","6","4","-","G","R","O","U","P",".","m","k","v">>]

\* clean_filename of every file name of the exploration, computed once
cleaned_names ==
    [file_name \in {d.file_name : d \in Documents \cup {DocRelease}} |->
        clean_filename(file_name)]

\* update.message.photo of the photo events: the size variants on offer
Photo1 == << [file_id |-> "p1s", width |-> 1, height |-> 1],
             [file_id |-> "p1", width |-> 2, height |-> 2] >>

Photo2 == << [file_id |-> "p2", width |-> 2, height |-> 1],
             [file_id |-> "p2t", width |-> 1, height |-> 2] >>

Photos == {Photo1, Photo2}

DocumentMessage(document, caption) ==
    [kind |-> "document", document |-> document, caption |-> caption]

PhotoMessage(photo, caption) ==
    [kind |-> "photo", photo |-> photo, caption |-> caption]

\* the messages the handlers registered for add_movie receive (bot.py lines
\* 501-502: filters.Document.ALL and filters.PHOTO), without a caption and
\* with one
AssetMessages ==
    { DocumentMessage(Doc1, << >>), DocumentMessage(Doc2, << >>),
      DocumentMessage(Doc2, <<"c","U+D800">>),
      PhotoMessage(Photo1, << >>), PhotoMessage(Photo2, << >>),
      PhotoMessage(Photo1, <<"c","U+D800">>) }

(***************************************************************************)
(* State.                                                                  *)
(***************************************************************************)
VARIABLES
    upload_sessions,  \* bot.py: user id -> session, for the users that have one
    collection,       \* bot.py: the Movies collection, in insertion order
    mb_collection,    \* movies_bot.py: MovieBot's Movies collection
    now,              \* wall-clock time
    startup,          \* per program: how far its startup has come
    room,             \* the search group: when each message from the bot was sent
    last,             \* the event handled last and what its handler did
    \* history of each user's current session, kept for the properties only
    touched,          \* the time add_movie last accessed the session
    opened,           \* how many sessions add_movie has created for the user
    uploaded,         \* the documents accepted since the session was created
    poster,           \* the photo accepted last since the session was created
    replaced,         \* whether a photo of the session has been followed by another
    origin,           \* per entry of collection: << user, session number >>
    events,           \* how many asset messages the storage group has seen
    asked,            \* per user: when each text that reached a store was sent
    flight,           \* bot.py: the updates received and not yet handled, in order
    jobs,             \* movies_bot.py: the jobs given to schedule, and whether
                      \* the scheduler loop is asleep
    search_group_messages
                      \* bot.py line 85: the list of that name

vars == << upload_sessions, collection, mb_collection, now, startup, jobs,
                    search_group_messages, room,
           last, touched, opened, uploaded, poster, replaced, origin, events,
           asked, flight >>

history == << touched, opened, uploaded, poster, replaced, origin >>

\* the record of a handler run: the event, then what the handler did with it
Run(handler, user, chat, kind, applied, attempted, inserted, notices, raised) ==
    [handler |-> handler, user |-> user, chat |-> chat, kind |-> kind,
     applied |-> applied, attempted |-> attempted, inserted |-> inserted,
     notices |-> notices, raised |-> raised]

\* bot.py line 68: retries = 5
MaxRetries == 5

\* both programs past their startup, each with its store connected
Serving ==
    [bot |-> [phase |-> "serving", retries |-> MaxRetries, usable |-> TRUE],
     MovieBot |-> [phase |-> "serving", usable |-> TRUE]]

\* movies_bot.py: schedule holds no job and the scheduler loop has not slept
NoJobs == [registered |-> 0, asleep |-> FALSE]

\* line 95: upload_sessions starts with no keys
NoSessions == [u \in {} |-> None]

Init ==
    /\ upload_sessions = NoSessions
    /\ collection = << >>
    /\ mb_collection = << >>
    /\ now = 0
    /\ startup = Serving
    /\ room = {}
    /\ asked = [u \in Users |-> << >>]
    /\ last = Run("start", "u1", SEARCH_GROUP_ID, "none", FALSE, FALSE, FALSE, << >>, FALSE)
    /\ touched = [u \in Users |-> 0]
    /\ opened = [u \in Users |-> 0]
    /\ uploaded = [u \in Users |-> << >>]
    /\ poster = [u \in Users |-> None]
    /\ replaced = [u \in Users |-> FALSE]
    /\ origin = << >>
    /\ events = 0
    /\ flight = << >>
    /\ jobs = NoJobs
    /\ search_group_messages = << >>

(***************************************************************************)
(* bot.py add_movie (lines 97-207), step by step.                          *)
(***************************************************************************)
\* a policy check that lets every chat through
in_any_chat(chat) == chat \in Chats

\* whether a call on collection can succeed: it raises on the None that
\* connect_mongo returns once its retries are spent (lines 81-84)
store_outcomes == IF startup.bot.usable THEN BOOLEAN ELSE {FALSE}

\* line 100: the policy check on the chat
in_storage_group(chat) == chat = STORAGE_GROUP_ID

\* line 107: upload_sessions.setdefault(user_id, {"files": [], "image": None})
new_session == [files |-> << >>, image |-> None, caption |-> NoKey]

get_session(sessions, user) ==
    IF user \in DOMAIN sessions THEN sessions[user] ELSE new_session

\* an append that skips a file reference the session already holds
add_file_once(session, document, caption) ==
    IF \E k \in 1..Len(session.files) : session.files[k].file_id = document.file_id
    THEN session
    ELSE [session EXCEPT
            !.files = Append(@, [file_id |-> document.file_id,
                                 file_name |-> cleaned_names[document.file_name]])]

\* lines 125-129: a document is appended, the caption kept or defaulted
add_file(session, document, caption) ==
    LET cleaned_name == cleaned_names[document.file_name]
    IN  [session EXCEPT
            !.files = Append(@, [file_id |-> document.file_id,
                                 file_name |-> cleaned_name]),
            !.caption = IF caption # << >> THEN Some(caption)
                        ELSE IF @ = NoKey THEN Some(cleaned_name)
                        ELSE @]

\* the variant listed first, whatever its size
first_photo(photo) == photo[1]

\* line 137: max(image_info, key=width*height), the first of the largest
largest_photo(photo) ==
    LET area(i) == photo[i].width * photo[i].height
        best == {i \in 1..Len(photo) : \A j \in 1..Len(photo) : area(j) <= area(i)}
    IN  photo[CHOOSE i \in best : \A j \in best : i <= j]

\* a poster that is kept once set
set_image_once(session, photo, caption) ==
    IF session.image # None THEN session
    ELSE [session EXCEPT
            !.image = Some([file_id |-> largest_photo(photo).file_id,
                            width |-> largest_photo(photo).width,
                            height |-> largest_photo(photo).height])]

\* lines 138-143: the poster is overwritten
set_image(session, photo, caption) ==
    [session EXCEPT
        !.image = Some([file_id |-> largest_photo(photo).file_id,
                        width |-> largest_photo(photo).width,
                        height |-> largest_photo(photo).height]),
        !.caption = IF caption # << >> THEN Some(caption)
                    ELSE IF @ = NoKey THEN None
                    ELSE @]

\* lines 113-144: the session after the message has been applied to it
apply_message(session, msg) ==
    IF msg.kind = "document"
    THEN add_file(session, msg.document, sanitize_unicode(msg.caption))
    ELSE set_image(session, msg.photo, sanitize_unicode(msg.caption))

\* line 147: if session['files'] and session['image']
is_ready(session) == session.files # << >> /\ session.image # None

\* line 149: uuid.uuid4(), a value no entry of the store holds
uuid4(store) == Len(store) + 1

\* an entry named after the file uploaded last
entry_named_last(session, movie_id) ==
    [movie_id |-> movie_id,
     name |-> session.files[Len(session.files)].file_name,
     media |-> [documents |-> session.files, image |-> session.image[2]]]

\* lines 148-157: the entry built from a ready session
movie_entry(session, movie_id) ==
    [movie_id |-> movie_id,
     name |-> session.files[1].file_name,
     media |-> [documents |-> session.files, image |-> session.image[2]]]

\* a removal that empties the whole map
del_every_session(sessions, user) ==
    [u \in {} |-> sessions[u]]

\* line 200: del upload_sessions[user_id]
del_session(sessions, user) ==
    [u \in DOMAIN sessions \ {user} |-> sessions[u]]

\* sessions with user's session set
put_session(sessions, user, session) ==
    [u \in DOMAIN sessions \cup {user} |->
        IF u = user THEN session ELSE sessions[u]]

\* a message sent by a handler: which one, and whether the transport took it
Notice(text, delivered) == [text |-> text, delivered |-> delivered]

\* a preview that is sent a second time
preview_twice(shown) == << Notice("preview", shown), Notice("preview", shown) >>

\* lines 182-191: the preview sent to the search group
preview_notices(shown) == << Notice("preview", shown) >>

\* lines 131, 144: the acknowledgement of the message
ack_text(msg) ==
    IF msg.kind = "document" THEN "files_received" ELSE "image_received"

\* The history of the user's session once msg has been accepted: a user
\* without a session gets a new one, whose history starts with msg.
Record(user, msg) ==
    LET fresh == user \notin DOMAIN upload_sessions
        docs  == IF fresh THEN << >> ELSE uploaded[user]
        photo == IF fresh THEN None ELSE poster[user]
    IN  /\ touched' = [touched EXCEPT ![user] = now]
        /\ opened' = [opened EXCEPT ![user] = IF fresh THEN @ + 1 ELSE @]
        /\ uploaded' = [uploaded EXCEPT ![user] =
                           IF msg.kind = "document"
                           THEN Append(docs, msg.document) ELSE docs]
        /\ poster' = [poster EXCEPT ![user] =
                         IF msg.kind = "photo" THEN Some(msg.photo) ELSE photo]
        /\ replaced' = [replaced EXCEPT ![user] =
                           IF fresh THEN FALSE
                           ELSE @ \/ (msg.kind = "photo" /\ photo # None)]

\* lines 100-104: a message from another chat is rejected unread
AddMovieRejected(user, chat) ==
    /\ ~in_storage_group(chat)
    /\ \E sent \in BOOLEAN :
          last' = Run("add_movie", user, chat, "unread", FALSE, FALSE, FALSE,
                      << Notice("wrong_chat", sent) >>, ~sent)
    /\ UNCHANGED << upload_sessions, collection, mb_collection, now, startup, jobs,
                    search_group_messages,
                    room, asked, history, events,
                    flight >>

\* lines 106-207: a message in the storage group.  The awaits are where the
\* handler can fail: the transport may raise on any send, the store on
\* insert_one; each outcome is a choice.
AddMovieAccepted(user, chat, msg) ==
    LET session == apply_message(get_session(upload_sessions, user), msg)
        stored == put_session(upload_sessions, user, session)
        ack == ack_text(msg)
        done(attempted, inserted, notices, raised) ==
            last' = Run("add_movie", user, chat, msg.kind, TRUE, attempted,
                        inserted, notices, raised)
    IN  /\ in_storage_group(chat)
        /\ events < MaxEvents
        /\ events' = events + 1
        /\ Record(user, msg)
        /\ UNCHANGED << mb_collection, now, startup, jobs,
                    search_group_messages, room, asked, flight >>
        /\ \E acked \in BOOLEAN :
             IF ~acked
             THEN \* lines 131, 144: the reply raises and the handler ends
                  /\ upload_sessions' = stored
                  /\ done(FALSE, FALSE, << Notice(ack, FALSE) >>, TRUE)
                  /\ UNCHANGED << collection, origin >>
             ELSE IF ~is_ready(session)
             THEN \* line 147: nothing to commit yet
                  /\ upload_sessions' = stored
                  /\ done(FALSE, FALSE, << Notice(ack, TRUE) >>, FALSE)
                  /\ UNCHANGED << collection, origin >>
             ELSE \E inserted \in store_outcomes :
                  IF ~inserted
                  THEN \* line 160 raises: lines 201-203
                       /\ upload_sessions' = stored
                       /\ UNCHANGED << collection, origin >>
                       /\ \E told \in BOOLEAN :
                            done(TRUE, FALSE,
                                 << Notice(ack, TRUE), Notice("failed", told) >>,
                                 ~told)
                  ELSE /\ collection' =
                            Append(collection,
                                   movie_entry(session, uuid4(collection)))
                       /\ origin' = Append(origin, << user, opened'[user] >>)
                       /\ \E added \in BOOLEAN :
                            IF ~added
                            THEN \* line 161 raises: lines 201-203
                                 /\ upload_sessions' = stored
                                 /\ \E told \in BOOLEAN :
                                      done(TRUE, TRUE,
                                           << Notice(ack, TRUE),
                                              Notice("added", FALSE),
                                              Notice("failed", told) >>,
                                           ~told)
                            ELSE \* lines 163-200: the preview, then del
                                 /\ upload_sessions' = del_session(stored, user)
                                 /\ \E shown \in BOOLEAN :
                                      done(TRUE, TRUE,
                                           << Notice(ack, TRUE),
                                              Notice("added", TRUE) >> \o
                                           preview_notices(shown),
                                           FALSE)

Next ==
    \E user \in Users, chat \in Chats :
        \/ AddMovieRejected(user, chat)
        \/ \E msg \in AssetMessages : AddMovieAccepted(user, chat, msg)

Spec == Init /\ [][Next]_vars

(***************************************************************************)
(* movies_bot.py MovieBot.add_movie (lines 101-134).  The handler is       *)
(* registered for filters.Document.ALL (line 264), so the message always   *)
(* holds a document.                                                       *)
(***************************************************************************)
\* a document whose file_id is Doc1's, under another file name
Doc3 == [file_id |-> "f1", file_name |-> <<"B",".","m","p","4">>]

MovieBotDocuments == {Doc1, Doc2, Doc3}

\* line 103: the policy check on the chat
mb_in_storage_group(chat) == chat = STORAGE_GROUP_ID

\* a write that adds an entry whether or not the file_id is stored
insert_always(store, document) ==
    Append(store, [name |-> document.file_name, file_id |-> document.file_id])

\* lines 119-123: whether the filter {"file_id": file_id} finds an entry
is_stored(store, document) ==
    \E k \in 1..Len(store) : store[k].file_id = document.file_id

\* lines 119-123: update_one({"file_id": file_id}, {"$set": ...}, upsert=True)
upsert(store, document) ==
    LET hits == {k \in 1..Len(store) : store[k].file_id = document.file_id}
        first == CHOOSE k \in hits : \A j \in hits : k <= j
        entry == [name |-> document.file_name, file_id |-> document.file_id]
    IN  IF hits = {} THEN Append(store, entry)
        ELSE [store EXCEPT ![first] = entry]

\* lines 103-108
MovieBotAddMovieRejected(user, chat) ==
    /\ ~mb_in_storage_group(chat)
    /\ \E sent \in BOOLEAN :
          last' = Run("MovieBot.add_movie", user, chat, "unread", FALSE, FALSE,
                      FALSE, << Notice("wrong_chat", sent) >>, ~sent)
    /\ UNCHANGED << upload_sessions, collection, mb_collection, now, startup, jobs,
                    search_group_messages,
                    room, asked, history, events,
                    flight >>

\* lines 110-134: only a PyMongoError is caught, a failed send raises
MovieBotAddMovieAccepted(user, chat, document) ==
    LET done(inserted, notices, raised) ==
            last' = [handler |-> "MovieBot.add_movie", user |-> user,
                     chat |-> chat, kind |-> "document", applied |-> TRUE,
                     attempted |-> TRUE, inserted |-> inserted,
                     matched |-> is_stored(mb_collection, document),
                     notices |-> notices, raised |-> raised]
    IN  /\ mb_in_storage_group(chat)
        /\ UNCHANGED << upload_sessions, collection, now, startup, jobs,
                    search_group_messages, room, asked,
                        history, events,
                    flight >>
        /\ \E updated \in BOOLEAN :
             IF ~updated
             THEN /\ UNCHANGED mb_collection
                  /\ \E told \in BOOLEAN :
                       done(FALSE, << Notice("failed", told) >>, ~told)
             ELSE /\ mb_collection' = upsert(mb_collection, document)
                  /\ \E sent \in BOOLEAN :
                       done(TRUE, << Notice("added", sent) >>, ~sent)

(***************************************************************************)
(* Searching: bot.py search_movie (lines 209-281) with suggest_movies      *)
(* (lines 380-427), and MovieBot.search_movie (lines 136-170) behind       *)
(* handle_text_message (lines 223-237).                                    *)
(***************************************************************************)
\* the first n of a sequence
limit(s, n) == IF Len(s) <= n THEN s ELSE SubSeq(s, 1, n)

\* s in lower case
fold(s) == [k \in 1..Len(s) |-> lower(s[k])]

\* re.compile(re.escape(movie_name), re.IGNORECASE) as a $regex: the name
\* holds movie_name somewhere, letter case apart
regex_matches(name, movie_name) ==
    \E p \in 1..(Len(name) + 1) : MatchAt(name, p, fold(movie_name))

\* {"$regex": ".*" + prefix + ".*", "$options": "i"}: the prefix is not
\* escaped, so a "." in it stands for any character
pattern_matches(name, prefix) ==
    \E p \in 1..(Len(name) - Len(prefix) + 1) :
        \A k \in 1..Len(prefix) :
            prefix[k] = "." \/ lower(name[p + k - 1]) = lower(prefix[k])

\* the text messages of the exploration
Queries ==
    { <<"a","b">>, <<" ","A","B"," ">>, <<"b"," ","2">>, <<"z","z">>,
      <<"a","b",".","x">>, <<"x","y","z">>, <<" ">>,
      <<"T","e","l","l"," ","m","e"," ","a"," ","J","O","K","E">> }

\* the names the stores of the exploration hold
StoredNames ==
    {cleaned_names[d.file_name] : d \in Documents} \cup
    {d.file_name : d \in MovieBotDocuments}

\* the names the handlers search for: the text stripped, and sanitized
MovieNames ==
    {strip(text) : text \in Queries} \cup
    {sanitize_unicode(strip(text)) : text \in Queries}

\* regex_matches and pattern_matches over the exploration, computed once
direct_matches ==
    [name \in StoredNames |-> {q \in MovieNames : regex_matches(name, q)}]

suggestion_matches ==
    [name \in StoredNames |->
        {q \in MovieNames : pattern_matches(name, limit(q, 3))}]

\* bot.py line 232: find({"name": {"$regex": regex_pattern}}).limit(10)
find_direct(store, movie_name) ==
    limit(SelectSeq(store, LAMBDA e : movie_name \in direct_matches[e.name]), 10)

\* bot.py line 397: find({"name": {"$regex": ...movie_name[:3]...}}).limit(5)
find_suggestions(store, movie_name) ==
    limit(SelectSeq(store, LAMBDA e : movie_name \in suggestion_matches[e.name]),
          5)

\* movies_bot.py line 151: find({"name": {"$regex": regex_pattern}}).limit(5)
mb_find(store, movie_name) ==
    limit(SelectSeq(store, LAMBDA e : movie_name \in direct_matches[e.name]), 5)

\* a length test that lets every query through
never_too_short(query) == Len(query) < 0

\* bot.py line 385: is_query_too_short
is_query_too_short(query) == Len(query) < 3

\* movies_bot.py lines 55-61: the questions of the funny responses
FunnyQuestions ==
    { <<"w","h","a","t","'","s"," ","y","o","u","r"," ","f","a","v","o","r","i","t","e"," ","c","o","l","o","r","?">>,
      <<"t","e","l","l"," ","m","e"," ","a"," ","j","o","k","e">>,
      <<"h","o","w"," ","a","r","e"," ","y","o","u","?">>,
      <<"d","o"," ","y","o","u"," ","b","e","l","i","e","v","e"," ","i","n"," ","l","o","v","e","?">>,
      <<"w","h","a","t","'","s"," ","y","o","u","r"," ","p","u","r","p","o","s","e","?">> }

\* movies_bot.py lines 225-229: a question occurs in the lowered message
is_funny(text) ==
    \E question \in FunnyQuestions : regex_matches(strip(text), question)

\* is_funny over the exploration, computed once
funny_texts == {text \in Queries : is_funny(text)}

\* which send of a batch of results the transport refuses (0: none)
SendFailures == {0, 1, 2}

\* the record of a search: the event, the store reads, and what was sent
SearchRun(handler, user, chat, text, direct, results, fuzzy, suggestions, delivered, notices, raised) ==
    [handler |-> handler, user |-> user, chat |-> chat, text |-> text,
     direct |-> direct, results |-> results, fuzzy |-> fuzzy,
     suggestions |-> suggestions, delivered |-> delivered,
     notices |-> notices, raised |-> raised]

\* a policy check that takes a text from every chat
in_every_chat(chat) == chat \in Chats

\* bot.py line 215: the policy check of search_movie on the chat
in_search_group(chat) == chat = SEARCH_GROUP_ID

\* movies_bot.py line 138: the policy check of MovieBot.search_movie
mb_in_search_group(chat) == chat = SEARCH_GROUP_ID

\* search_movie's except (lines 277-281): the error notice, which may raise
SearchFailed(handler, user, chat, text, direct, fuzzy, said) ==
    \E told \in BOOLEAN :
        last' = SearchRun(handler, user, chat, text, direct, << >>, fuzzy,
                          << >>, << >>, said \o << Notice("error", told) >>,
                          ~told)

\* suggest_movies (lines 380-427).  Its except clauses name pymongo, which
\* bot.py never imports, so an exception in its body becomes a NameError
\* that search_movie's except catches.
SuggestMovies(user, chat, text, movie_name) ==
    LET run(fuzzy, suggestions, notices) ==
            last' = SearchRun("search_movie", user, chat, text, "done", << >>,
                              fuzzy, suggestions, << >>, notices, FALSE)
        failed(fuzzy, said) ==
            SearchFailed("search_movie", user, chat, text, "done", fuzzy, said)
    IN  IF is_query_too_short(movie_name)
        THEN \E sent \in BOOLEAN :
                IF sent THEN run("none", << >>, << Notice("too_short", TRUE) >>)
                ELSE failed("none", << Notice("too_short", FALSE) >>)
        ELSE \E found \in store_outcomes :
                IF ~found THEN failed("failed", << >>)
                ELSE LET suggestions == find_suggestions(collection, movie_name)
                         text_of == IF suggestions # << >> THEN "suggestions"
                                    ELSE "nothing"
                     IN  \E sent \in BOOLEAN :
                            IF sent
                            THEN run("done", [k \in 1..Len(suggestions) |->
                                                 suggestions[k].movie_id],
                                     << Notice(text_of, TRUE) >>)
                            ELSE failed("done", << Notice(text_of, FALSE) >>)

\* bot.py search_movie.  Every stored entry has an image, so each result is
\* sent with send_photo, whose failure is caught per result (lines 255-266).
SearchMovie(user, chat, text) ==
    LET movie_name == sanitize_unicode(strip(text))
        quiet(notice, sent) ==
            last' = SearchRun("search_movie", user, chat, text, "none", << >>,
                              "none", << >>, << >>, << Notice(notice, sent) >>,
                              ~sent)
    IN  /\ UNCHANGED << upload_sessions, collection, mb_collection, now,
                        startup, jobs,
                    search_group_messages, room, history, events,
                    flight >>
        /\ IF ~in_search_group(chat)
           THEN \E sent \in BOOLEAN : quiet("wrong_chat", sent)
           ELSE IF movie_name = << >>
           THEN \E sent \in BOOLEAN : quiet("provide_name", sent)
           ELSE \E found \in store_outcomes :
                  IF ~found
                  THEN SearchFailed("search_movie", user, chat, text, "failed",
                                    "none", << >>)
                  ELSE LET results == find_direct(collection, movie_name)
                       IN  IF results = << >>
                           THEN SuggestMovies(user, chat, text, movie_name)
                           ELSE \E refused \in SendFailures :
                                  last' = SearchRun(
                                      "search_movie", user, chat, text, "done",
                                      [k \in 1..Len(results) |-> results[k].movie_id],
                                      "none", << >>,
                                      [k \in 1..Len(results) |-> k # refused],
                                      << >>, FALSE)

\* MovieBot.handle_text_message, then MovieBot.search_movie.  Only a
\* PyMongoError is caught: a refused send ends the handler.
MovieBotTextMessage(user, chat, text) ==
    LET movie_name == strip(text)
        run(direct, results, delivered, notices, raised) ==
            last' = SearchRun("MovieBot.search_movie", user, chat, text, direct,
                              results, "none", << >>, delivered, notices, raised)
    IN  /\ UNCHANGED << upload_sessions, collection, mb_collection, now,
                        startup, jobs,
                    search_group_messages, room, history, events,
                    flight >>
        /\ IF text \in funny_texts
           THEN \E sent \in BOOLEAN :
                   run("none", << >>, << >>, << Notice("funny", sent) >>, ~sent)
           ELSE IF ~mb_in_search_group(chat)
           THEN \E sent \in BOOLEAN :
                   run("none", << >>, << >>, << Notice("wrong_chat", sent) >>,
                       ~sent)
           ELSE IF movie_name = << >>
           THEN run("none", << >>, << >>, << >>, FALSE)
           ELSE \E found \in BOOLEAN :
                  IF ~found
                  THEN \E told \in BOOLEAN :
                          run("failed", << >>, << >>,
                              << Notice("error", told) >>, ~told)
                  ELSE LET results == mb_find(mb_collection, movie_name)
                           ids == [k \in 1..Len(results) |-> results[k].file_id]
                       IN  IF results = << >>
                           THEN \E sent \in BOOLEAN :
                                   run("done", << >>, << >>,
                                       << Notice("not_found", sent) >>, ~sent)
                           ELSE \E refused \in SendFailures :
                                   IF refused = 0 \/ refused > Len(results)
                                   THEN run("done", ids,
                                            [k \in 1..Len(results) |-> TRUE],
                                            << >>, FALSE)
                                   ELSE run("done", ids,
                                            [k \in 1..refused |-> k < refused],
                                            << >>, TRUE)

(***************************************************************************)
(* Specifications next to Spec, one per concern.                           *)
(***************************************************************************)
\* MovieBot alone: its uploads and its text messages
MovieBotNext ==
    \E user \in Users, chat \in Chats :
        \/ MovieBotAddMovieRejected(user, chat)
        \/ \E document \in MovieBotDocuments :
              MovieBotAddMovieAccepted(user, chat, document)
        \/ \E text \in Queries :
              MovieBotTextMessage(user, chat, text) /\ UNCHANGED asked

SpecMovieBot == Init /\ [][MovieBotNext]_vars

\* the upload handlers of both programs, on the messages without a caption
PolicyMessages == { DocumentMessage(Doc1, << >>), PhotoMessage(Photo1, << >>) }

PolicyNext ==
    \E user \in Users, chat \in Chats :
        \/ AddMovieRejected(user, chat)
        \/ \E msg \in PolicyMessages : AddMovieAccepted(user, chat, msg)
        \/ MovieBotAddMovieRejected(user, chat)
        \/ \E document \in MovieBotDocuments :
              MovieBotAddMovieAccepted(user, chat, document)

SpecPolicy == Init /\ [][PolicyNext]_vars

\* the clock advances
Tick ==
    /\ now < MaxTime
    /\ now' = now + 1
    /\ UNCHANGED << upload_sessions, collection, mb_collection, startup, jobs,
                    search_group_messages, room,
                    asked, last, history, events,
                    flight >>

\* one user's uploads to bot.py while time passes
ClockNext ==
    \/ Tick
    \/ \E chat \in Chats :
          \/ AddMovieRejected("u1", chat)
          \/ \E msg \in AssetMessages : AddMovieAccepted("u1", chat, msg)

SpecClock == Init /\ [][ClockNext]_vars

\* n entries committed from one-document sessions holding document
Block(document, n, first_id) ==
    [k \in 1..n |->
        movie_entry(set_image(add_file(new_session, document, << >>),
                              Photo1, << >>),
                    first_id + k - 1)]

\* n entries upserted by MovieBot from n files named as document
MovieBotBlock(document, n, first_id) ==
    [k \in 1..n |->
        [name |-> document.file_name, file_id |-> << "file", first_id + k - 1 >>]]

\* the stores bot.py searches: a run of entries of one document, then a run
\* of entries of the other
DrawnStores ==
    UNION { { Block(d1, i, 1) \o Block(d2, n - i, i + 1) :
                d1 \in Documents, d2 \in Documents, i \in 0..n } :
            n \in 0..MaxStored }

\* the stores MovieBot searches, likewise
MovieBotDrawnStores ==
    UNION { { MovieBotBlock(d1, i, 1) \o MovieBotBlock(d2, n - i, i + 1) :
                d1 \in Documents, d2 \in Documents, i \in 0..n } :
            n \in 0..MaxMovieBotStored }

SearchInit ==
    /\ upload_sessions = NoSessions
    /\ \/ collection \in DrawnStores /\ mb_collection = << >>
       \/ collection = << >> /\ mb_collection \in MovieBotDrawnStores
    /\ now = 0
    /\ startup = Serving
    /\ room = {}
    /\ asked = [u \in Users |-> << >>]
    /\ last = Run("start", "u1", SEARCH_GROUP_ID, "none", FALSE, FALSE, FALSE, << >>, FALSE)
    /\ touched = [u \in Users |-> 0]
    /\ opened = [u \in Users |-> 0]
    /\ uploaded = [u \in Users |-> << >>]
    /\ poster = [u \in Users |-> None]
    /\ replaced = [u \in Users |-> FALSE]
    /\ origin = << >>
    /\ events = 0
    /\ flight = << >>
    /\ jobs = NoJobs
    /\ search_group_messages = << >>

\* one user's text messages to either program over a drawn store
SearchNext ==
    \E chat \in Chats, text \in Queries :
        \/ SearchMovie("u1", chat, text) /\ UNCHANGED asked
        \/ MovieBotTextMessage("u1", chat, text) /\ UNCHANGED asked

SpecSearch == SearchInit /\ [][SearchNext]_vars

(***************************************************************************)
(* Startup: bot.py connect_mongo (lines 67-84) and main (lines 494-513),   *)
(* MovieBot.__init__ (lines 36-52), main and run (lines 257-292).          *)
(***************************************************************************)
\* both programs before they have connected to their store
Connecting ==
    [bot |-> [phase |-> "connecting", retries |-> MaxRetries, usable |-> FALSE],
     MovieBot |-> [phase |-> "connecting", usable |-> FALSE]]

StartupInit ==
    /\ upload_sessions = NoSessions
    /\ collection = << >>
    /\ mb_collection = << >>
    /\ now = 0
    /\ startup = Connecting
    /\ room = {}
    /\ asked = [u \in Users |-> << >>]
    /\ last = Run("start", "u1", SEARCH_GROUP_ID, "none", FALSE, FALSE, FALSE, << >>, FALSE)
    /\ touched = [u \in Users |-> 0]
    /\ opened = [u \in Users |-> 0]
    /\ uploaded = [u \in Users |-> << >>]
    /\ poster = [u \in Users |-> None]
    /\ replaced = [u \in Users |-> FALSE]
    /\ origin = << >>
    /\ events = 0
    /\ flight = << >>
    /\ jobs = NoJobs
    /\ search_group_messages = << >>

\* the variables startup steps leave alone
served == << upload_sessions, collection, mb_collection, now, room, asked, last,
            history, events, flight, jobs, search_group_messages >>

\* connect_mongo, one pass of its loop: the ping answers, or it times out
\* and a retry is spent, or it raises something else, which nothing catches.
\* With the retries spent the function returns None.
ConnectMongo ==
    /\ startup.bot.phase = "connecting"
    /\ \E outcome \in {"ok", "timeout", "error"} :
          startup' = [startup EXCEPT !.bot =
              IF outcome = "ok"
              THEN [@ EXCEPT !.phase = "connected", !.usable = TRUE]
              ELSE IF outcome = "error"
              THEN [@ EXCEPT !.phase = "failed"]
              ELSE IF @.retries - 1 > 0
              THEN [@ EXCEPT !.retries = @ - 1]
              ELSE [@ EXCEPT !.retries = 0, !.phase = "connected"]]
    /\ UNCHANGED served

\* main: the web server starts, the handlers are registered and polling
\* begins, whatever connect_mongo returned; an exception ends main.
Main ==
    /\ startup.bot.phase = "connected"
    /\ \E started \in BOOLEAN :
          startup' = [startup EXCEPT !.bot.phase =
                         IF started THEN "serving" ELSE "failed"]
    /\ UNCHANGED served

\* MovieBot.__init__: server_info answers, or the PyMongoError is raised
\* again and main() ends with it
MovieBotInit ==
    /\ startup.MovieBot.phase = "connecting"
    /\ \E connected \in BOOLEAN :
          startup' = [startup EXCEPT !.MovieBot =
              IF connected THEN [phase |-> "connected", usable |-> TRUE]
              ELSE [phase |-> "failed", usable |-> FALSE]]
    /\ UNCHANGED served

\* MovieBot.run: the handlers are registered and polling begins
MovieBotRun ==
    /\ startup.MovieBot.phase = "connected"
    /\ startup' = [startup EXCEPT !.MovieBot.phase = "serving"]
    /\ UNCHANGED served

\* both programs from their start, serving one user's uploads once they poll
StartupNext ==
    \/ ConnectMongo
    \/ Main
    \/ MovieBotInit
    \/ MovieBotRun
    \/ /\ startup.bot.phase = "serving"
       /\ \E chat \in Chats :
             \/ AddMovieRejected("u1", chat)
             \/ \E msg \in PolicyMessages : AddMovieAccepted("u1", chat, msg)
    \/ /\ startup.MovieBot.phase = "serving"
       /\ \E chat \in Chats :
             \/ MovieBotAddMovieRejected("u1", chat)
             \/ \E document \in MovieBotDocuments :
                   MovieBotAddMovieAccepted("u1", chat, document)

SpecStartup == StartupInit /\ [][StartupNext]_vars

\* the time of a text message is noted when its handler went to the store
Count(user) ==
    /\ Len(asked[user]) < MaxAsked
    /\ asked' = [asked EXCEPT ![user] =
                    IF last'.direct # "none" THEN Append(@, now) ELSE @]

\* one user's text messages to either program while time passes
RateNext ==
    \/ Tick
    \/ \E chat \in Chats, text \in Queries :
          \/ SearchMovie("u1", chat, text) /\ Count("u1")
          \/ MovieBotTextMessage("u1", chat, text) /\ Count("u1")

SpecRate == Init /\ [][RateNext]_vars

(***************************************************************************)
(* Retention: MovieBot.clear_search_group (lines 172-221).  bot.py keeps   *)
(* search_group_messages (line 85) and never reads or writes it.           *)
(***************************************************************************)
\* a message of the bot in the search group
Message(sent_at, text) == [sent_at |-> sent_at, text |-> text]

\* movies_bot.py lines 155-164: a search answer arrives in the search group
Post ==
    /\ room' = room \cup {Message(now, "answer")}
    /\ UNCHANGED << upload_sessions, collection, mb_collection, now, startup, jobs,
                    search_group_messages,
                    asked, last, history, events,
                    flight >>

\* a loop over the messages, oldest first, that a failed deletion ends
deletions_until_failure(found, failing) ==
    LET attempted == {m \in found :
                        \A f \in failing : f = m \/ f.sent_at >= m.sent_at}
    IN  [attempted |-> attempted,
         kept |-> (found \ attempted) \cup (failing \cap attempted)]

\* lines 197-204: delete_message is called for every message found; one
\* whose deletion raises is logged and stays, and the loop goes on
deletions(found, failing) ==
    [attempted |-> found, kept |-> failing]

\* One run of clear_search_group.  bot.get_chat_messages (line 191) is no
\* method of the Bot API: the call raises and the except of line 214 ends
\* the run; were it to answer, it would hand over every message of the
\* group (limit=None), each of which is deleted unless its delete_message
\* fails (lines 197-204), and the notice of lines 207-210 follows.
ClearSearchGroup ==
    /\ UNCHANGED << upload_sessions, collection, mb_collection, now, startup, jobs,
                    search_group_messages,
                    asked, history, events,
                    flight >>
    /\ \E fetched \in BOOLEAN :
         IF ~fetched
         THEN /\ UNCHANGED room
              /\ last' = [handler |-> "clear_search_group", at |-> now,
                          fetched |-> FALSE, notified |-> FALSE,
                          found |-> {}, attempted |-> {}, failed |-> {}]
         ELSE \E failing \in SUBSET room, notified \in BOOLEAN :
                LET swept == deletions(room, failing)
                IN  /\ room' = swept.kept \cup
                           (IF notified THEN {Message(now, "cleared")} ELSE {})
                    /\ last' = [handler |-> "clear_search_group", at |-> now,
                                fetched |-> TRUE, notified |-> notified,
                                found |-> room,
                                attempted |-> swept.attempted,
                                failed |-> failing \cap swept.attempted]

\* answers arrive, time passes, and the search group is cleared
RetentionNext ==
    \/ Tick
    \/ Post
    \/ ClearSearchGroup

SpecRetention == Init /\ [][RetentionNext]_vars

(***************************************************************************)
(* The scheduler of MovieBot: run (lines 257-282) starts the coroutine of  *)
(* _schedule_group_cleaning (lines 239-255) beside the polling.            *)
(***************************************************************************)
\* lines 247-253, one pass of the while loop: a job that would start
\* clear_search_group is handed to schedule, then the loop sleeps.  Nothing
\* in the program calls schedule.run_pending(), so no job is ever run.
ScheduledCleanup ==
    /\ startup.MovieBot.phase = "serving"
    /\ ~jobs.asleep
    /\ jobs' = [registered |-> IF jobs.registered < MaxJobs
                               THEN jobs.registered + 1 ELSE MaxJobs,
                asleep |-> TRUE]
    /\ UNCHANGED << upload_sessions, collection, mb_collection, now, startup,
                    search_group_messages, room, asked, last, history, events,
                    flight >>

\* line 253: asyncio.sleep(60) returns and the loop goes round
WakeUp ==
    /\ jobs.asleep
    /\ jobs' = [jobs EXCEPT !.asleep = FALSE]
    /\ UNCHANGED << upload_sessions, collection, mb_collection, now, startup,
                    search_group_messages, room, asked, last, history, events,
                    flight >>

\* MovieBot from its start: the scheduler loop, the answers of the searches
\* it serves, and the clock
SchedulerNext ==
    \/ MovieBotInit
    \/ MovieBotRun
    \/ ScheduledCleanup
    \/ WakeUp
    \/ startup.MovieBot.phase = "serving" /\ Post
    \/ Tick

\* the event loop runs every task that can run, and time passes
SpecScheduler ==
    /\ StartupInit
    /\ [][SchedulerNext]_vars
    /\ WF_vars(MovieBotInit)
    /\ WF_vars(MovieBotRun)
    /\ WF_vars(ScheduledCleanup)
    /\ WF_vars(WakeUp)
    /\ WF_vars(Tick)

\* uploads of the release file and of a photo
ReleaseMessages == { DocumentMessage(DocRelease, << >>), PhotoMessage(Photo1, << >>) }

ReleaseNext ==
    \E user \in Users, chat \in Chats :
        \/ AddMovieRejected(user, chat)
        \/ \E msg \in ReleaseMessages : AddMovieAccepted(user, chat, msg)

SpecRelease == Init /\ [][ReleaseNext]_vars

(***************************************************************************)
(* bot.py add_movie as the coroutine it is: it runs from one await to the  *)
(* next.  The Application of line 498 is built without concurrent_updates, *)
(* so it takes the next update only when the handler of the one before has *)
(* returned or raised.                                                     *)
(***************************************************************************)
\* an update received: its event, where its handler stands, and what the
\* handler has done so far
Frame(user, chat, msg, pc, attempted, inserted, notices) ==
    [user |-> user, chat |-> chat, msg |-> msg, pc |-> pc,
     attempted |-> attempted, inserted |-> inserted, notices |-> notices]

\* the variables of the session histories but origin
marks == << touched, opened, uploaded, poster, replaced >>

\* an asset message arrives and waits for its turn
Arrive(user, chat, msg) ==
    /\ events < MaxEvents
    /\ events' = events + 1
    /\ flight' = Append(flight, Frame(user, chat, msg, "queued", FALSE, FALSE, << >>))
    /\ UNCHANGED << upload_sessions, collection, mb_collection, now, startup, jobs,
                    search_group_messages,
                    room, asked, last, history >>

\* the handler of the first update returns or raises
Finish(notices, raised) ==
    /\ last' = Run("add_movie", flight[1].user, flight[1].chat,
                   flight[1].msg.kind, TRUE, flight[1].attempted,
                   flight[1].inserted, notices, raised)
    /\ flight' = Tail(flight)

\* lines 100-144: the handler of the first update starts and runs to its
\* first await, the rejection or the acknowledgement
Start ==
    /\ flight # << >>
    /\ flight[1].pc = "queued"
    /\ UNCHANGED << collection, mb_collection, now, startup, jobs,
                    search_group_messages, room, asked,
                    events, origin >>
    /\ LET user == flight[1].user
           msg == flight[1].msg
       IN  IF ~in_storage_group(flight[1].chat)
           THEN /\ \E sent \in BOOLEAN :
                     last' = Run("add_movie", user, flight[1].chat, "unread",
                                 FALSE, FALSE, FALSE,
                                 << Notice("wrong_chat", sent) >>, ~sent)
                /\ flight' = Tail(flight)
                /\ UNCHANGED << upload_sessions, marks >>
           ELSE /\ upload_sessions' =
                     put_session(upload_sessions, user,
                                 apply_message(get_session(upload_sessions, user), msg))
                /\ Record(user, msg)
                /\ flight' = [flight EXCEPT ![1].pc = "ack"]
                /\ UNCHANGED last

\* lines 131/144 to 160: the acknowledgement returns or raises; then the
\* ready check and insert_one, which does not suspend
Acked ==
    /\ flight # << >>
    /\ flight[1].pc = "ack"
    /\ UNCHANGED << upload_sessions, mb_collection, now, startup, jobs,
                    search_group_messages, room, asked,
                    events, marks >>
    /\ LET user == flight[1].user
           ack == ack_text(flight[1].msg)
       IN  \E acked \in BOOLEAN :
             IF ~acked
             THEN /\ Finish(<< Notice(ack, FALSE) >>, TRUE)
                  /\ UNCHANGED << collection, origin >>
             ELSE IF ~is_ready(upload_sessions[user])
             THEN /\ Finish(<< Notice(ack, TRUE) >>, FALSE)
                  /\ UNCHANGED << collection, origin >>
             ELSE \E inserted \in store_outcomes :
                    /\ UNCHANGED last
                    /\ IF ~inserted
                       THEN /\ flight' = [flight EXCEPT
                                 ![1].pc = "failed", ![1].attempted = TRUE,
                                 ![1].notices = << Notice(ack, TRUE) >>]
                            /\ UNCHANGED << collection, origin >>
                       ELSE /\ collection' =
                                 Append(collection,
                                        movie_entry(upload_sessions[user],
                                                    uuid4(collection)))
                            /\ origin' = Append(origin, << user, opened[user] >>)
                            /\ flight' = [flight EXCEPT
                                 ![1].pc = "added", ![1].attempted = TRUE,
                                 ![1].inserted = TRUE,
                                 ![1].notices = << Notice(ack, TRUE) >>]

\* line 161: the success reply returns or raises
Added ==
    /\ flight # << >>
    /\ flight[1].pc = "added"
    /\ UNCHANGED << upload_sessions, collection, mb_collection, now, startup, jobs,
                    search_group_messages,
                    room, asked, events, last, history >>
    /\ \E added \in BOOLEAN :
          flight' = [flight EXCEPT
              ![1].pc = IF added THEN "preview" ELSE "failed",
              ![1].notices = Append(@, Notice("added", added))]

\* lines 163-200: the preview, whose failure is caught, then the del
Previewed ==
    /\ flight # << >>
    /\ flight[1].pc = "preview"
    /\ UNCHANGED << collection, mb_collection, now, startup, jobs,
                    search_group_messages, room, asked,
                    events, history >>
    /\ upload_sessions' = del_session(upload_sessions, flight[1].user)
    /\ \E shown \in BOOLEAN :
          Finish(flight[1].notices \o preview_notices(shown), FALSE)

\* lines 201-203: the failure notice returns or raises
Failed ==
    /\ flight # << >>
    /\ flight[1].pc = "failed"
    /\ UNCHANGED << upload_sessions, collection, mb_collection, now, startup, jobs,
                    search_group_messages,
                    room, asked, events, history >>
    /\ \E told \in BOOLEAN :
          Finish(Append(flight[1].notices, Notice("failed", told)), ~told)

\* one user's asset messages, received while earlier ones are being handled
FlightNext ==
    \/ \E chat \in Chats, msg \in PolicyMessages : Arrive("u1", chat, msg)
    \/ Start
    \/ Acked
    \/ Added
    \/ Previewed
    \/ Failed

SpecFlight == Init /\ [][FlightNext]_vars

(***************************************************************************)
(* Properties of add_movie.                                                *)
(***************************************************************************)
\* the entry inserted last
LastEntry == collection[Len(collection)]

\* the last event was an upload that add_movie accepted
Accepted == last.handler = "add_movie" /\ last.applied

\* the last event ended with a successful insert_one
Committed == last.handler = "add_movie" /\ last.inserted

\* the documents add_movie is to build from the uploads of a session
DocumentsOf(uploads) ==
    [k \in 1..Len(uploads) |->
        [file_id |-> uploads[k].file_id,
         file_name |-> cleaned_names[uploads[k].file_name]]]

\* the file ids a photo event offers
VariantsOf(photo) == {photo[k].file_id : k \in 1..Len(photo)}

\* C2: the store never holds two entries committed from the same upload
\* session, whatever inserts and sends fail.
NoDuplicateCommit ==
    \A i, j \in 1..Len(origin) : origin[i] = origin[j] => i = j

\* C3: when the insert of a ready session fails, no entry is added, the
\* session keeps its files and its image, the user is sent the retry notice,
\* and the user's next asset event attempts the commit again.
RetryAfterInsertFailure ==
    [][ /\ (last'.handler = "add_movie" /\ last'.attempted /\ ~last'.inserted) =>
            /\ collection' = collection
            /\ last'.user \in DOMAIN upload_sessions'
            /\ upload_sessions'[last'.user].files = DocumentsOf(uploaded'[last'.user])
            /\ upload_sessions'[last'.user].image # None
            /\ \E k \in 1..Len(last'.notices) : last'.notices[k].text = "failed"
        /\ (/\ last.handler = "add_movie" /\ last.attempted /\ ~last.inserted
            /\ last'.handler = "add_movie" /\ last'.applied
            /\ last'.user = last.user) => last'.attempted
      ]_vars

\* C4: when the insert succeeds, the user's session is destroyed within the
\* same event, so nothing of it carries over to the user's next upload.
SessionDestroyedOnCommit ==
    Committed => last.user \notin DOMAIN upload_sessions

\* C5: after an accepted asset event a commit is attempted if and only if
\* the session holds at least one file and an image.
CommitIffReady ==
    Accepted =>
        (last.attempted <=>
            (uploaded[last.user] # << >> /\ poster[last.user] # None))

\* C7: the documents of a committed entry are the files uploaded in its
\* session, in upload order, one per file event, duplicates included.
DocumentsAreUploads ==
    Committed => LastEntry.media.documents = DocumentsOf(uploaded[last.user])

\* C7 witness: an entry committed with the same file reference twice
SameFileTwiceCommitted ==
    /\ Committed
    /\ Len(LastEntry.media.documents) = 2
    /\ LastEntry.media.documents[1].file_id = LastEntry.media.documents[2].file_id

\* C8: a session, and the entry committed from it, hold the image of the
\* most recent photo event; a photo event leaves the pending files alone.
LastPosterWins ==
    /\ \A u \in DOMAIN upload_sessions :
          IF poster[u] = None
          THEN upload_sessions[u].image = None
          ELSE /\ upload_sessions[u].image # None
               /\ upload_sessions[u].image[2].file_id \in VariantsOf(poster[u][2])
    /\ Committed =>
          LastEntry.media.image.file_id \in VariantsOf(poster[last.user][2])
    /\ (Accepted /\ last.kind = "photo" /\ last.user \in DOMAIN upload_sessions) =>
          upload_sessions[last.user].files = DocumentsOf(uploaded[last.user])

\* C8 witness: an entry committed after its session's poster was replaced
ReplacedPosterCommitted ==
    /\ Committed
    /\ replaced[last.user]
    /\ Len(LastEntry.media.documents) >= 1

(***************************************************************************)
(* Properties across the upload handlers, of expiry, and of the searches.  *)
(***************************************************************************)
\* C1: every entry of a store has at least one document and an image,
\* whichever add_movie handler wrote it.
EveryEntryComplete ==
    \A store \in {collection, mb_collection} :
        \A k \in 1..Len(store) :
            /\ "media" \in DOMAIN store[k]
            /\ Len(store[k].media.documents) >= 1
            /\ "file_id" \in DOMAIN store[k].media.image

\* C6: an asset event from a chat other than the storage group is rejected
\* unread: no session is created or changed and no store gains an entry.
RejectedOutsideStorage ==
    [][ (/\ last'.handler \in {"add_movie", "MovieBot.add_movie"}
         /\ last'.chat # STORAGE_GROUP_ID) =>
            /\ ~last'.applied
            /\ upload_sessions' = upload_sessions
            /\ collection' = collection
            /\ mb_collection' = mb_collection
      ]_vars

\* C6 witness: add_movie has rejected a message of a user who has a session
\* open, while both stores hold an entry
RejectedWithSessionOpen ==
    /\ last.handler = "add_movie"
    /\ last.chat # STORAGE_GROUP_ID
    /\ last.user \in DOMAIN upload_sessions
    /\ collection # << >>
    /\ mb_collection # << >>

\* the session timeout, in ticks of the clock
SessionTimeout == 1

\* C9: a file event that finds the user's session untouched for longer than
\* the timeout starts a fresh session of that one file, and commits nothing.
ExpiredSessionIsAbsent ==
    [][ (/\ events' = events + 1
         /\ last'.kind = "document"
         /\ last'.user \in DOMAIN upload_sessions
         /\ now - touched[last'.user] > SessionTimeout) =>
            /\ ~last'.attempted
            /\ last'.user \in DOMAIN upload_sessions'
            /\ Len(upload_sessions'[last'.user].files) = 1
            /\ upload_sessions'[last'.user].image = None
      ]_vars

\* name holds query somewhere, letter case apart
ContainsFold(name, query) ==
    \E i \in 0..(Len(name) - Len(query)) :
        \A k \in 1..Len(query) : lower(name[i + k]) = lower(query[k])

\* the positions of the store whose name holds the query
MatchingPositions(store, query) ==
    {k \in 1..Len(store) : ContainsFold(store[k].name, query)}

\* C10: a direct search returns the first 10 entries, in store order, whose
\* name holds the query as a literal substring, letter case apart.
DirectMatchIsFirstTen ==
    (/\ last.handler \in {"search_movie", "MovieBot.search_movie"}
     /\ last.direct = "done") =>
        LET store == IF last.handler = "search_movie" THEN collection
                     ELSE mb_collection
            hits == MatchingPositions(store, strip(last.text))
            taken == {k \in hits : Cardinality({j \in hits : j <= k}) <= 10}
            id(k) == IF last.handler = "search_movie" THEN store[k].movie_id
                     ELSE store[k].file_id
        IN  /\ Len(last.results) = Cardinality(taken)
            /\ \A n \in 1..Len(last.results) :
                  \E k \in taken :
                      /\ Cardinality({j \in taken : j <= k}) = n
                      /\ last.results[n] = id(k)

\* the notices of the last run that the transport took
Delivered(text) ==
    \E k \in 1..Len(last.notices) :
        last.notices[k].text = text /\ last.notices[k].delivered

\* the name bot.py searches for in the last text message
LastMovieName == sanitize_unicode(strip(last.text))

\* C11: with no direct match and a query of 3 characters or more, the
\* suggestions are the first 5 entries, in store order, whose name holds the
\* query's first 3 characters as a literal substring, letter case apart; with
\* a direct match no suggestions are computed.
SuggestionsAreFirstFive ==
    last.handler = "search_movie" =>
        /\ last.results # << >> => (last.fuzzy = "none" /\ last.suggestions = << >>)
        /\ (Delivered("suggestions") \/ Delivered("nothing")) =>
              LET hits == MatchingPositions(collection, limit(LastMovieName, 3))
                  taken == {k \in hits : Cardinality({j \in hits : j <= k}) <= 5}
              IN  /\ Len(last.suggestions) = Cardinality(taken)
                  /\ \A n \in 1..Len(last.suggestions) :
                        \E k \in taken :
                            /\ Cardinality({j \in taken : j <= k}) = n
                            /\ last.suggestions[n] = collection[k].movie_id

\* C12: with no direct match and a query of fewer than 3 characters, the
\* search answers "query too short" and runs no suggestion query.
ShortQueryIsRefused ==
    (/\ last.handler = "search_movie"
     /\ last.direct = "done"
     /\ last.results = << >>
     /\ Len(LastMovieName) < 3) =>
        /\ last.fuzzy = "none"
        /\ last.suggestions = << >>
        /\ last.notices # << >>
        /\ last.notices[1].text = "too_short"

\* C12 witness: a two-character query without a direct match was answered
\* "query too short"
ShortQueryAnswered ==
    /\ last.handler = "search_movie"
    /\ last.direct = "done"
    /\ last.results = << >>
    /\ Len(LastMovieName) = 2
    /\ collection # << >>
    /\ Delivered("too_short")

\* C13: a refused delivery of one search result does not stop the batch: a
\* send is made for every result and the handler does not raise.
RefusedResultIsSkipped ==
    (/\ last.handler \in {"search_movie", "MovieBot.search_movie"}
     /\ last.direct = "done"
     /\ last.results # << >>) =>
        /\ Len(last.delivered) = Len(last.results)
        /\ ~last.raised

\* C14: a program whose store is still unreachable when the retries are
\* spent does not go on to register handlers and serve events.
NoServingWithoutStore ==
    \A program \in {"bot", "MovieBot"} :
        startup[program].phase = "serving" => startup[program].usable

\* the rate limiter's budget: requests per window, and the window in ticks
MaxRequests == 5

RateWindow == 2

\* C15: of one user's text messages, no more than maxRequests sent inside
\* one time window reach a store.
AdmissionIsLimited ==
    \A u \in Users :
        Cardinality({k \in 1..Len(asked[u]) : now - asked[u][k] < RateWindow})
            <= MaxRequests

\* the age, in ticks, beyond which a message of the bot is to be deleted
RetentionAge == 2

\* C16: a sweep deletes the messages older than the retention age and keeps
\* the younger ones.
SweepDeletesOldOnly ==
    [][ (last'.handler = "clear_search_group" /\ last' # last) =>
            \A message \in room :
                /\ now - message.sent_at > RetentionAge => message \notin room'
                /\ now - message.sent_at < RetentionAge => message \in room'
      ]_vars

\* C17: the release file followed by a photo yields one entry named
\* "Movie Name (2021)" with one document and an image.
ReleaseEntryIsNamed ==
    (/\ Committed
     /\ uploaded[last.user] = << DocRelease >>
     /\ last.kind = "photo") =>
        /\ LastEntry.name =
              <<"M","o","v","i","e"," ","N","a","m","e"," ","(","2","0","2","1",")">>
        /\ Len(LastEntry.media.documents) = 1
        /\ "file_id" \in DOMAIN LastEntry.media.image

\* C19: an asset event changes no session but its user's own: every other
\* user keeps the session they had, or keeps having none.
OtherSessionsUntouched ==
    [][ last'.handler = "add_movie" =>
            \A v \in Users \ {last'.user} :
                /\ v \in DOMAIN upload_sessions' <=> v \in DOMAIN upload_sessions
                /\ v \in DOMAIN upload_sessions =>
                      upload_sessions'[v] = upload_sessions[v]
      ]_vars

\* C19 witness: one user's commit while the other has files and a caption
\* pending
CommitBesidePendingSession ==
    /\ Committed
    /\ last.user \notin DOMAIN upload_sessions
    /\ \E v \in DOMAIN upload_sessions :
          /\ v # last.user
          /\ upload_sessions[v].files # << >>
          /\ upload_sessions[v].caption # NoKey

\* how many notices of the last run have the text
Notices(text) ==
    Cardinality({k \in 1..Len(last.notices) : last.notices[k].text = text})

\* C20: a preview goes to the search group only in a run whose insert has
\* succeeded, after the insert, and at most once.
PreviewFollowsInsert ==
    last.handler = "add_movie" =>
        /\ Notices("preview") <= 1
        /\ Notices("preview") = 1 =>
              /\ last.inserted
              /\ collection # << >>
              /\ last.notices[Len(last.notices)].text = "preview"
        /\ ~last.inserted => Notices("preview") = 0

\* C20 witness: an entry was inserted and its preview delivered
PreviewDelivered ==
    /\ Committed
    /\ Delivered("preview")

\* C18: asset events of one user that are in flight together are handled
\* one after the other in arrival order, a session is committed once, and no
\* handler acts on a session that an earlier handler has committed.
SessionUpdatesAreAtomic ==
    /\ \A k \in 2..Len(flight) : flight[k].pc = "queued"
    /\ \A i, j \in 1..Len(origin) : origin[i] = origin[j] => i = j
    /\ (flight # << >> /\ flight[1].pc = "ack") =>
          \A i \in 1..Len(origin) :
              origin[i] # << flight[1].user, opened[flight[1].user] >>

(***************************************************************************)
(* Properties of the committed entries, of the sweeps and of the policy    *)
(* check of the searches.                                                  *)
(***************************************************************************)
\* C21: the name of a committed entry is the cleaned name of the first file
\* uploaded in its session, however many files followed, whenever the image
\* came, and whether or not an earlier commit of the session failed.
NameIsFirstFileName ==
    Committed =>
        /\ uploaded[last.user] # << >>
        /\ LastEntry.name = clean_filename(uploaded[last.user][1].file_name)

\* C21 witness: an entry committed by a file event that followed the image
\* and a file of another name
NamedAfterFirstOfTwo ==
    /\ Committed
    /\ last.kind = "document"
    /\ Len(uploaded[last.user]) = 2
    /\ clean_filename(uploaded[last.user][1].file_name)
          # clean_filename(uploaded[last.user][2].file_name)

\* the variants of a photo event that no other variant exceeds in
\* width x height, each as the poster add_movie is to store for it
LargestVariants(photo) ==
    {[file_id |-> photo[i].file_id, width |-> photo[i].width,
      height |-> photo[i].height] :
        i \in {i \in 1..Len(photo) :
                 \A j \in 1..Len(photo) :
                    photo[j].width * photo[j].height
                       <= photo[i].width * photo[i].height}}

\* C22: after a photo event the poster of the session is one of the offered
\* variants of the largest width x height, and its file reference, width and
\* height are those of that one variant.
PosterIsLargestVariant ==
    (Accepted /\ last.kind = "photo") =>
        /\ poster[last.user] # None
        /\ last.user \in DOMAIN upload_sessions =>
              /\ upload_sessions[last.user].image # None
              /\ upload_sessions[last.user].image[2]
                    \in LargestVariants(poster[last.user][2])
        /\ last.inserted =>
              LastEntry.media.image \in LargestVariants(poster[last.user][2])

\* C22 witness: the session holds the poster of a photo event whose largest
\* variant was not the one listed first
LargerVariantStored ==
    /\ Accepted
    /\ last.kind = "photo"
    /\ last.user \in DOMAIN upload_sessions
    /\ poster[last.user] = Some(Photo1)
    /\ upload_sessions[last.user].image = Some(Photo1[2])

\* C23: an entry that a store holds stays in the store as it is, with the
\* same name, documents and image, whatever upload, search or retried commit
\* follows.
CommittedEntryIsImmutable ==
    [][ /\ \A k \in 1..Len(collection) :
              k <= Len(collection') /\ collection'[k] = collection[k]
        /\ \A k \in 1..Len(mb_collection) :
              k <= Len(mb_collection') /\ mb_collection'[k] = mb_collection[k]
      ]_vars

\* C24: whatever documents MovieBot.add_movie has been given, its store holds
\* at most one entry per file_id: a file_id that is stored gets no second
\* entry.
OneEntryPerFileId ==
    \A i, j \in 1..Len(mb_collection) :
        mb_collection[i].file_id = mb_collection[j].file_id => i = j

\* C24 witness: MovieBot.add_movie has written a document whose file_id was
\* stored already, beside an entry of another file_id
StoredFileUploadedAgain ==
    /\ last.handler = "MovieBot.add_movie"
    /\ last.applied
    /\ last.inserted
    /\ last.matched
    /\ Len(mb_collection) = 2

\* C25: once MovieBot serves, a sweep of the search group eventually runs.
SweepEventuallyRuns ==
    (startup.MovieBot.phase = "serving") ~> (last.handler = "clear_search_group")

\* C26: a sweep calls for the deletion of every message it found, whichever
\* of the deletions fail.
SweepOutlastsFailedDeletion ==
    (last.handler = "clear_search_group" /\ last.fetched) =>
        /\ last.attempted = last.found
        /\ last.failed \subseteq last.found

\* C26 witness: a sweep in which the deletion of one message failed and a
\* message sent later was deleted
LaterMessageDeleted ==
    /\ last.handler = "clear_search_group"
    /\ last.fetched
    /\ \E f \in last.failed, m \in last.found \ last.failed :
          f.sent_at < m.sent_at /\ m \notin room

\* how many messages the last search sent that the transport took
SentByLastSearch ==
    Cardinality({k \in 1..Len(last.delivered) : last.delivered[k]})
        + Cardinality({k \in 1..Len(last.notices) : last.notices[k].delivered})

\* C27: every result or notice that search_movie has sent into the search
\* group has its record in search_group_messages from the moment it is sent.
EveryRoomMessageTracked ==
    (last.handler = "search_movie" /\ last.chat = SEARCH_GROUP_ID) =>
        Len(search_group_messages) >= SentByLastSearch

\* the last step was a text from a chat other than the search group
TextFromOtherChat ==
    /\ last'.handler \in {"search_movie", "MovieBot.search_movie"}
    /\ last'.chat # SEARCH_GROUP_ID

\* the last step asked no store and changed neither a store nor a session
NoStoreTouched ==
    /\ last'.direct = "none"
    /\ last'.fuzzy = "none"
    /\ last'.results = << >>
    /\ last'.suggestions = << >>
    /\ last'.delivered = << >>
    /\ upload_sessions' = upload_sessions
    /\ collection' = collection
    /\ mb_collection' = mb_collection

\* C28 as stated: a text from a chat other than the search group asks no
\* store, changes no store and no session, and is answered by the rejection
\* notice alone.
OtherChatTextIsRejected ==
    [][ TextFromOtherChat =>
           /\ NoStoreTouched
           /\ Len(last'.notices) = 1
           /\ last'.notices[1].text = "wrong_chat"
      ]_vars

\* C28: a text from a chat other than the search group asks no store and
\* changes no store and no session; it is answered by the rejection notice
\* alone, but for a funny question to MovieBot, which is answered by its
\* canned reply alone.
OtherChatTextAsksNoStore ==
    [][ TextFromOtherChat =>
           /\ NoStoreTouched
           /\ Len(last'.notices) = 1
           /\ last'.notices[1].text =
                 IF /\ last'.handler = "MovieBot.search_movie"
                    /\ last'.text \in funny_texts
                 THEN "funny" ELSE "wrong_chat"
      ]_vars

\* C28 witness: search_movie has rejected a text from the storage group that
\* an entry of its store matches
MatchingTextRejected ==
    /\ last.handler = "search_movie"
    /\ last.chat = STORAGE_GROUP_ID
    /\ MatchingPositions(collection, strip(last.text)) # {}
    /\ Delivered("wrong_chat")

====
